---- MODULE Spec2Model ----
(***************************************************************************)
(* Model of src/index.py: a Telegram bot run as a cloud function.  One     *)
(* invocation of handler(event) decodes one update and dispatches it to    *)
(* start_command, help_command or handle_message, which read and write the *)
(* process-wide dictionary user_states.                                    *)
(*                                                                         *)
(* One action models one whole invocation of handler.  The environment     *)
(* (Telegram sends, Google authentication, sheet reads, Drive lookups, the *)
(* generation request, bot start-up and shutdown) may fail; the outcome of *)
(* every external call is an input of the action.  Updates are new text    *)
(* messages of a user (update.message and update.effective_user are set).  *)
(*                                                                         *)
(* Short texts (user input, facet values, fixed prompts) are strings.      *)
(* Content bodies (a row's text, a generated text, an image link) are      *)
(* sequences of character codes, so that their length and their slices are *)
(* those the code computes.                                                *)
(*                                                                         *)
(* Spec, SpecLong and SpecTwo handle one invocation at a time; SpecFlow    *)
(* also counts the texts of a flow; SpecRace lets the host overlap the     *)
(* invocations of one user and follows each handler from wait to wait.     *)
(***************************************************************************)
EXTENDS Integers, Sequences, FiniteSets, TLC

VARIABLES
  user_states,  \* index.py:51  user id -> [state, data]
  world,        \* the environment: which sheet, generated texts, users, texts
  last,         \* the event of the last invocation
  out,          \* the reply_text calls of the last invocation, in order
  calls,        \* the external service calls of the last invocation, in order
  log,          \* the logger.error calls of the last invocation, in order
  response,     \* what the last invocation of handler returned
  since,        \* per user: text messages of a flow handled since /start
  tasks         \* the invocations in flight when the host overlaps them

vars == <<user_states, world, last, out, calls, log, response, since, tasks>>

----------------------------------------------------------------------------
(* Program constants *)

MAX_MESSAGE == 4096

Idle == "None"
AUDIENCE == "AUDIENCE"
LANGUAGE == "LANGUAGE"
COUNTRY == "COUNTRY"
TOPIC == "TOPIC"
FORMAT == "FORMAT"
awaiting_product == "awaiting_product"
awaiting_country == "awaiting_country"
awaiting_language == "awaiting_language"
awaiting_link == "awaiting_link"
awaiting_message == "awaiting_message"

GenerateContent == "Generate Content"
UsePushGenerator == "Use push-generator"

WelcomeMsg == "Welcome! Choose an option:"
StartErrorMsg == "An error occurred. Please try again."
HelpMsg == "Available commands: /start /help; Options: Generate Content, Use push-generator"
RestartMsg == "Please start over with /start\nIf you need help, use /help command."
ProductPrompt == "What's your product name?"
CountryPrompt == "Which country are you targeting?"
LanguagePrompt == "What language should the copy be in?"
LinkPrompt == "Please provide the App Store/Google Play link:"
MessagePrompt == "What message do you want to convey?"
GeneratingMsg == "Generating push notifications... Please wait."
MoreMsg == "Want to generate more push notifications? Type /start"
GenFailedMsg == "Sorry, couldn't generate push notifications.\nPlease try again with /start"
GenErrorMsg == "An error occurred while generating notifications.\nPlease try again with /start"
NoContentMsg == "Sorry, no content found matching your criteria. Try different options."
FormatErrorMsg == "An error occurred while getting content.\nPlease try again with /start"
HandleErrorMsg == "An error occurred. Please try again with /start"
ErrorHandlerMsg == "Sorry, an error occurred. Please try again with /start"

\* "Here's your content:\n\n"
ContentPrefix == <<72, 101, 114, 101, 39, 115, 32, 121, 111, 117, 114, 32,
                   99, 111, 110, 116, 101, 110, 116, 58, 10, 10>>
\* "\n\nImage: "
ImagePrefix == <<10, 10, 73, 109, 97, 103, 101, 58, 32>>

MenuKeyboard == <<GenerateContent, UsePushGenerator>>

----------------------------------------------------------------------------
(* Dictionaries *)

EmptyMap == [k \in {} |-> ""]

Put(m, k, v) == [x \in (DOMAIN m) \cup {k} |-> IF x = k THEN v ELSE m[x]]

Del(m, k) == [x \in (DOMAIN m) \ {k} |-> m[x]]

NewEntry == [state |-> Idle, data |-> EmptyMap]

----------------------------------------------------------------------------
(* Inputs and external data *)

\* Every short text of the model in Python's string order (code points).
TextOrder == <<"", GenerateContent, UsePushGenerator, "a", "img1">>

Facets == <<"audience", "language", "country", "topic", "format">>

Row(a, l, c, t, f, txt) ==
  [audience |-> a, language |-> l, country |-> c, topic |-> t, format |-> f, text |-> txt]

RowImg(a, l, c, t, f, txt, img) ==
  [audience |-> a, language |-> l, country |-> c, topic |-> t, format |-> f,
   text |-> txt, image_id |-> img]

\* A sheet with an image_id column: two rows share their five facets, one
\* row has an empty facet cell.
SheetWithImages ==
  << RowImg("a", "a", "a", "a", "a", <<65>>, ""),
     RowImg("a", "a", "a", "a", "a", <<66>>, "img1"),
     RowImg("a", "a", "a", "", "a", <<67>>, "img1") >>

\* A body of n characters; the period 26 does not divide MAX_MESSAGE, and
\* bodies of the lengths used below differ in their first character.
LongBody(n) == [i \in 1..n |-> 97 + ((i + n) % 26)]

\* A sheet without an image_id column, whose replies have MAX_MESSAGE,
\* MAX_MESSAGE + 1 and 2 * MAX_MESSAGE + 1 characters.
SheetLong ==
  << Row("a", "a", "a", "a", "a", LongBody(MAX_MESSAGE - Len(ContentPrefix))),
     Row("a", "a", "a", "a", "a", LongBody(MAX_MESSAGE + 1 - Len(ContentPrefix))),
     Row("a", "a", "a", "a", "a", LongBody(2 * MAX_MESSAGE + 1 - Len(ContentPrefix))) >>

ShortPool == { <<>>, <<80>> }

LongPool == { LongBody(MAX_MESSAGE), LongBody(MAX_MESSAGE + 1), LongBody(2 * MAX_MESSAGE) }

\* The rows sheet.get_all_records() returns.
catalog == IF world \in {"short", "two users"} THEN SheetWithImages ELSE SheetLong

\* The texts the generation service may return.
gen_pool == IF world \in {"short", "two users"} THEN ShortPool ELSE LongPool

\* The users the host delivers updates from.
senders == IF world = "two users" THEN {1, 2} ELSE {1}

\* The non-command texts these users send.
texts ==
  CASE world = "short" -> {GenerateContent, UsePushGenerator, "a"}
    [] world = "long catalog" -> {GenerateContent, "a"}
    [] world = "long push" -> {UsePushGenerator, "a"}
    [] world = "two users" -> {GenerateContent, UsePushGenerator, "a"}

\* The texts user uid sends next.  With two users each of them picks a
\* menu label at Idle and answers "a" at every other step.
TextsOf(uid) ==
  IF world # "two users" THEN texts
  ELSE IF uid \in DOMAIN user_states /\ user_states[uid].state = Idle
    THEN {GenerateContent, UsePushGenerator}
  ELSE {"a"}

\* The webViewLink the file store returns for an image id.
LinkOf(image_id) == <<104, 116, 116, 112>>

----------------------------------------------------------------------------
(* Execution of one invocation: us is user_states, exc tells that an       *)
(* exception is propagating, ret is the value last returned.               *)

Ctx0 ==
  [us |-> user_states, out |-> <<>>, calls |-> <<>>, log |-> <<>>,
   exc |-> FALSE, err |-> "", ret |-> <<>>]

NoFaults ==
  [sendFails |-> {}, gauth |-> FALSE, values |-> FALSE, records |-> FALSE,
   drive |-> FALSE, genOk |-> TRUE, genText |-> <<>>, pick |-> 1,
   initFails |-> FALSE, shutdownFails |-> FALSE]

\* Statement sequencing: Rest runs unless an exception is propagating.
Then(c, Rest(_)) == IF c.exc THEN c ELSE Rest(c)

\* try / except: Handler runs when an exception is propagating.
Except(c, Handler(_)) == IF c.exc THEN Handler(c) ELSE c

\* a value bound to a name
Let(c, Body(_)) == Body(c)

Raise(c) == [c EXCEPT !.exc = TRUE]

TextMsg(t) == [text |-> t, keyboard |-> <<>>, body |-> <<>>, ok |-> TRUE]

KeyboardMsg(t, kb) == [text |-> t, keyboard |-> kb, body |-> <<>>, ok |-> TRUE]

BodyMsg(b) == [text |-> "", keyboard |-> <<>>, body |-> b, ok |-> TRUE]

\* update.message.reply_text(...): the n-th send of the invocation raises
\* when the fault plan says so.
reply_text(c, m, f) ==
  [c EXCEPT !.out = Append(@, [m EXCEPT !.ok = (Len(c.out) + 1) \notin f.sendFails]),
            !.exc = (Len(c.out) + 1) \in f.sendFails]

LogError(c, tag) == [c EXCEPT !.log = Append(@, tag)]

\* except Exception as e: logger.error(...)
Caught(c, tag) == [c EXCEPT !.exc = FALSE, !.log = Append(@, tag)]

Call(c, svc, ok) ==
  [c EXCEPT !.calls = Append(@, [svc |-> svc, ok |-> ok]), !.exc = ~ok]

\* Store with setdefault: an answer already present is kept.
Store_keep(c, uid, key, text) ==
  [c EXCEPT !.us[uid].data = IF key \in DOMAIN @ THEN @ ELSE Put(@, key, text)]

Store(c, uid, key, text) ==
  [c EXCEPT !.us[uid].data = Put(@, key, text)]

SetState(c, uid, st) == [c EXCEPT !.us[uid].state = st]

\* user_states.clear() instead of del user_states[user_id]
DeleteEntry_all(c, uid) == [c EXCEPT !.us = EmptyMap]

DeleteEntry(c, uid) == [c EXCEPT !.us = Del(@, uid)]

\* index.py:53-69: the error is logged and raised again
init_google_services(c, f) ==
  Except(Call(c, "auth", ~f.gauth), LAMBDA e : Raise(Caught(e, "init_google_services")))

\* sorted(list(set(...))) over the non-empty cells of a column
SortedUnique(column) ==
  SelectSeq(TextOrder,
            LAMBDA t : t # "" /\ \E i \in 1..Len(catalog) : catalog[i][column] = t)

\* The except block ends with "raise", as in init_google_services.
get_unique_values_raises(c, column, f) ==
  Except(Then(Call(c, "read", ~f.values), LAMBDA r : [r EXCEPT !.ret = SortedUnique(column)]),
         LAMBDA e : Raise(Caught(e, "get_unique_values")))

\* index.py:71-78: a failure is logged and gives []
get_unique_values(c, column, f) ==
  Except(Then(Call(c, "read", ~f.values), LAMBDA r : [r EXCEPT !.ret = SortedUnique(column)]),
         LAMBDA e : [Caught(e, "get_unique_values") EXCEPT !.ret = <<>>])

----------------------------------------------------------------------------
(* Splitting a body into messages *)

\* Slices one character short: response[i:i + 4095].
Parts_short(body) ==
  [k \in 1..((Len(body) + MAX_MESSAGE - 1) \div MAX_MESSAGE) |->
     SubSeq(body, (k - 1) * MAX_MESSAGE + 1,
            IF k * MAX_MESSAGE - 1 < Len(body) THEN k * MAX_MESSAGE - 1 ELSE Len(body))]

\* [response[i:i + 4096] for i in range(0, len(response), 4096)]
Parts(body) ==
  [k \in 1..((Len(body) + MAX_MESSAGE - 1) \div MAX_MESSAGE) |->
     SubSeq(body, (k - 1) * MAX_MESSAGE + 1,
            IF k * MAX_MESSAGE < Len(body) THEN k * MAX_MESSAGE ELSE Len(body))]

\* for part in parts: await update.message.reply_text(part)
RECURSIVE SendParts(_, _, _, _)
SendParts(c, parts, k, f) ==
  IF k > Len(parts) \/ c.exc THEN c
  ELSE SendParts(reply_text(c, BodyMsg(parts[k]), f), parts, k + 1, f)

SendBody(c, body, f) ==
  IF Len(body) > MAX_MESSAGE
    THEN SendParts(c, Parts(body), 1, f)
    ELSE reply_text(c, BodyMsg(body), f)

----------------------------------------------------------------------------
(* start_command, help_command *)

\* An entry that exists is kept (setdefault instead of assignment).
start_command_keeps(c, uid, f) ==
  Except(Then(reply_text(c, KeyboardMsg(WelcomeMsg, MenuKeyboard), f),
              LAMBDA c1 : IF uid \in DOMAIN c1.us THEN c1
                          ELSE [c1 EXCEPT !.us = Put(@, uid, NewEntry)]),
         LAMBDA e : reply_text(Caught(e, "start_command"), TextMsg(StartErrorMsg), f))

\* The step is reset and the answers of an existing entry are kept.
start_command_keeps_data(c, uid, f) ==
  Except(Then(reply_text(c, KeyboardMsg(WelcomeMsg, MenuKeyboard), f),
              LAMBDA c1 : IF uid \in DOMAIN c1.us THEN SetState(c1, uid, Idle)
                          ELSE [c1 EXCEPT !.us = Put(@, uid, NewEntry)]),
         LAMBDA e : reply_text(Caught(e, "start_command"), TextMsg(StartErrorMsg), f))

\* index.py:147-166
start_command(c, uid, f) ==
  Except(Then(reply_text(c, KeyboardMsg(WelcomeMsg, MenuKeyboard), f),
              LAMBDA c1 : [c1 EXCEPT !.us = Put(@, uid, NewEntry)]),
         LAMBDA e : reply_text(Caught(e, "start_command"), TextMsg(StartErrorMsg), f))

\* index.py:168-179
help_command(c, uid, f) == reply_text(c, TextMsg(HelpMsg), f)

----------------------------------------------------------------------------
(* handle_message: the steps of the two flows *)

\* The step set before the prompt is sent.
ChoiceStep_state_first(c, uid, text, f, key, column, prompt, next) ==
  Then(init_google_services(IF key = "" THEN c ELSE Store(c, uid, key, text), f),
       LAMBDA c2 :
         Then(get_unique_values(c2, column, f),
              LAMBDA c3 : reply_text(SetState(c3, uid, next), KeyboardMsg(prompt, c3.ret), f)))

\* A step of the catalog flow that offers choices (index.py:197-209 and
\* 215-273): key is the answer key of the step ("" at Idle), column the
\* column whose values are offered, next the step that follows.
ChoiceStep(c, uid, text, f, key, column, prompt, next) ==
  Then(init_google_services(IF key = "" THEN c ELSE Store(c, uid, key, text), f),
       LAMBDA c2 :
         Then(Then(get_unique_values(c2, column, f),
                   LAMBDA c3 : reply_text(c3, KeyboardMsg(prompt, c3.ret), f)),
              LAMBDA c4 : SetState(c4, uid, next)))

\* The answer is not stored.
QuestionStep_no_store(c, uid, text, f, key, prompt, next) ==
  Then(reply_text(c, TextMsg(prompt), f), LAMBDA c2 : SetState(c2, uid, next))

\* A step of the push flow that asks a fixed question (index.py:211-213
\* and 324-342).  user_data is the dictionary held in user_states.
QuestionStep(c, uid, text, f, key, prompt, next) ==
  Then(reply_text(IF key = "" THEN c ELSE Store(c, uid, key, text), TextMsg(prompt), f),
       LAMBDA c2 : SetState(c2, uid, next))

\* record[k] == user_data[k] for the five facets, left to right with
\* short-circuit "and"; a key missing from user_data raises KeyError.
RECURSIVE MatchFrom(_, _, _)
MatchFrom(r, ud, k) ==
  IF k > Len(Facets) THEN "yes"
  ELSE IF Facets[k] \notin DOMAIN ud THEN "KeyError"
  ELSE IF r[Facets[k]] = ud[Facets[k]] THEN MatchFrom(r, ud, k + 1)
  ELSE "no"

Matches(r, ud) == MatchFrom(r, ud, 1) = "yes"

FilterRaises(records, ud) ==
  \E i \in 1..Len(records) : MatchFrom(records[i], ud, 1) = "KeyError"

\* The filter without its last facet.
matching_records_no_format(records, ud) ==
  SelectSeq(records, LAMBDA r : MatchFrom(r, Put(ud, "format", r.format), 1) = "yes")

matching_records(records, ud) == SelectSeq(records, LAMBDA r : Matches(r, ud))

\* 'image_id' in random_record and random_record['image_id']
HasImage(r) == "image_id" \in DOMAIN r /\ r["image_id"] # ""

\* The lookup tried a second time after a failure.
ImageLink_retry(c, f) ==
  Except(Call(c, "drive", ~f.drive),
         LAMBDA e : Except(Call(Caught(e, "image"), "drive", ~f.drive),
                           LAMBDA e2 : Caught(e2, "image")))

\* The lookup without its try / except.
ImageLink_uncaught(c, f) == Call(c, "drive", ~f.drive)

\* index.py:296-303: a failure is logged and the image line left out
ImageLink(c, f) == Except(Call(c, "drive", ~f.drive), LAMBDA e : Caught(e, "image"))

\* index.py:292-310
SendRecord(c, random_record, f) ==
  IF HasImage(random_record)
    THEN Then(ImageLink(c, f),
              LAMBDA c1 :
                SendBody(c1,
                         (ContentPrefix \o random_record.text)
                           \o (IF f.drive THEN <<>>
                               ELSE ImagePrefix \o LinkOf(random_record["image_id"])),
                         f))
    ELSE SendBody(c, ContentPrefix \o random_record.text, f)

\* index.py:291-314
SendMatching(c, matching, f) ==
  IF matching # <<>>
    THEN SendRecord(c, matching[f.pick], f)
    ELSE reply_text(c, TextMsg(NoContentMsg), f)

\* index.py:277-314, the body of the try block of the FORMAT step
FormatTry(c, uid, text, f) ==
  Then(init_google_services(c, f),
       LAMBDA c1 :
         Then(Call(Store(c1, uid, "format", text), "read", ~f.records),
              LAMBDA c3 :
                IF FilterRaises(catalog, c3.us[uid].data) THEN Raise(c3)
                ELSE SendMatching(c3, matching_records(catalog, c3.us[uid].data), f)))

\* The entry deleted in the except block instead of in finally.
FormatStep_delete_on_error(c, uid, text, f) ==
  Except(FormatTry(c, uid, text, f),
         LAMBDA e : DeleteEntry(reply_text(Caught(e, "FORMAT"), TextMsg(FormatErrorMsg), f), uid))

\* Without the finally block.
FormatStep_keeps_entry(c, uid, text, f) ==
  Except(FormatTry(c, uid, text, f),
         LAMBDA e : reply_text(Caught(e, "FORMAT"), TextMsg(FormatErrorMsg), f))

\* index.py:275-322: try / except / finally
FormatStep(c, uid, text, f) ==
  DeleteEntry(Except(FormatTry(c, uid, text, f),
                     LAMBDA e : reply_text(Caught(e, "FORMAT"), TextMsg(FormatErrorMsg), f)),
              uid)

\* The except blocks return the error text instead of None.
generate_push_notifications_text(c, f) ==
  Except(Then(Call(c, "generate", f.genOk),
              LAMBDA r : [r EXCEPT !.ret = [none |-> FALSE, content |-> f.genText]]),
         LAMBDA e : [Caught(e, "generate_push_notifications")
                       EXCEPT !.ret = [none |-> FALSE, content |-> <<69>>]])

\* index.py:80-145: every failure is caught and gives None
generate_push_notifications(c, f) ==
  Except(Then(Call(c, "generate", f.genOk),
              LAMBDA r : [r EXCEPT !.ret = [none |-> FALSE, content |-> f.genText]]),
         LAMBDA e : [Caught(e, "generate_push_notifications")
                       EXCEPT !.ret = [none |-> TRUE, content |-> <<>>]])

PushKeys == {"product", "country", "language", "app_link", "message"}

\* index.py:361-376: if push_content
SendGenerated(c, push_content, f) ==
  IF ~push_content.none /\ push_content.content # <<>>
    THEN Then(SendBody(c, push_content.content, f),
              LAMBDA c4 : reply_text(c4, TextMsg(MoreMsg), f))
    ELSE reply_text(c, TextMsg(GenFailedMsg), f)

\* index.py:346-376, the body of the try block of the awaiting_message step;
\* an answer missing from user_data raises KeyError before the call.
MessageTry(c, uid, text, f) ==
  Then(reply_text(Store(c, uid, "message", text), TextMsg(GeneratingMsg), f),
       LAMBDA c2 :
         IF ~(PushKeys \subseteq DOMAIN c2.us[uid].data) THEN Raise(c2)
         ELSE Then(generate_push_notifications(c2, f),
                   LAMBDA c3 : SendGenerated(c3, c3.ret, f)))

\* The entry deleted at the end of the try block instead of in finally.
MessageStep_no_finally(c, uid, text, f) ==
  Except(Then(MessageTry(c, uid, text, f), LAMBDA c1 : DeleteEntry(c1, uid)),
         LAMBDA e : reply_text(Caught(e, "awaiting_message"), TextMsg(GenErrorMsg), f))

\* index.py:344-384: try / except / finally
MessageStep(c, uid, text, f) ==
  DeleteEntry(Except(MessageTry(c, uid, text, f),
                     LAMBDA e : reply_text(Caught(e, "awaiting_message"), TextMsg(GenErrorMsg), f)),
              uid)

\* An entry created for the unknown sender.
MissingState_creates(c, uid, f) ==
  Then(reply_text(c, TextMsg(RestartMsg), f),
       LAMBDA c1 : [c1 EXCEPT !.us = Put(@, uid, NewEntry)])

\* index.py:185-190: the sender has no entry
MissingState(c, uid, f) == reply_text(c, TextMsg(RestartMsg), f)

\* index.py:196-384: the branch of the sender's step
StepOf(c, uid, text, f, state) ==
  CASE state = Idle /\ text = GenerateContent ->
         ChoiceStep(c, uid, text, f, "", "audience", "Please select your audience:", AUDIENCE)
    [] state = Idle /\ text = UsePushGenerator ->
         QuestionStep(c, uid, text, f, "", ProductPrompt, awaiting_product)
    [] state = Idle /\ text \notin {GenerateContent, UsePushGenerator} -> c
    [] state = AUDIENCE ->
         ChoiceStep(c, uid, text, f, "audience", "language", "Great! Now select the language:", LANGUAGE)
    [] state = LANGUAGE ->
         ChoiceStep(c, uid, text, f, "language", "country", "Perfect! Choose the country:", COUNTRY)
    [] state = COUNTRY ->
         ChoiceStep(c, uid, text, f, "country", "topic", "Choose the topic:", TOPIC)
    [] state = TOPIC ->
         ChoiceStep(c, uid, text, f, "topic", "format", "Finally, choose the format:", FORMAT)
    [] state = FORMAT -> FormatStep(c, uid, text, f)
    [] state = awaiting_product ->
         QuestionStep(c, uid, text, f, "product", CountryPrompt, awaiting_country)
    [] state = awaiting_country ->
         QuestionStep(c, uid, text, f, "country", LanguagePrompt, awaiting_language)
    [] state = awaiting_language ->
         QuestionStep(c, uid, text, f, "language", LinkPrompt, awaiting_link)
    [] state = awaiting_link ->
         QuestionStep(c, uid, text, f, "app_link", MessagePrompt, awaiting_message)
    [] state = awaiting_message -> MessageStep(c, uid, text, f)
    [] OTHER -> c

\* A text that is no menu label is answered like a message of a sender
\* without entry.
Dispatch_other_restarts(c, uid, text, f) ==
  IF uid \notin DOMAIN c.us THEN MissingState(c, uid, f)
  ELSE IF c.us[uid].state = Idle /\ text \notin {GenerateContent, UsePushGenerator}
    THEN MissingState(c, uid, f)
  ELSE StepOf(c, uid, text, f, c.us[uid].state)

\* index.py:184-384, the body of the outer try block
Dispatch(c, uid, text, f) ==
  IF uid \notin DOMAIN c.us THEN MissingState(c, uid, f)
  ELSE StepOf(c, uid, text, f, c.us[uid].state)

\* The outer except block ends with "raise".
handle_message_reraises(c, uid, text, f) ==
  Except(Dispatch(c, uid, text, f),
         LAMBDA e : Then(reply_text(Caught(e, "handle_message"), TextMsg(HandleErrorMsg), f),
                         LAMBDA e2 : Raise(e2)))

\* index.py:181-388: the outer try / except
handle_message(c, uid, text, f) ==
  Except(Dispatch(c, uid, text, f),
         LAMBDA e : reply_text(Caught(e, "handle_message"), TextMsg(HandleErrorMsg), f))

\* index.py:390-396, called by the application for an exception that leaves
\* a handler; an exception of the error handler itself is logged by the
\* application and goes no further.
error(c, f) ==
  Except(reply_text(Caught(c, "error"), TextMsg(ErrorHandlerMsg), f),
         LAMBDA e : Caught(e, "application"))

----------------------------------------------------------------------------
(* The entry adapter *)

\* index.py:459-461: the handler whose filter accepts the update
RunHandler(c, upd, f) ==
  CASE upd.kind = "start" -> start_command(c, upd.uid, f)
    [] upd.kind = "help" -> help_command(c, upd.uid, f)
    [] upd.kind = "text" -> handle_message(c, upd.uid, upd.text, f)
    [] OTHER -> c

\* Application.process_update: an exception that leaves the handler goes to
\* the error handler (index.py:462) and is not raised to the caller.
process_update(c, upd, f) == Except(RunHandler(c, upd, f), LAMBDA e : error(e, f))

\* index.py:401-403
DecodeAndRun(c, event, f) ==
  IF ~event.decodes THEN [c EXCEPT !.exc = TRUE, !.err = "update"]
  ELSE IF f.initFails THEN [c EXCEPT !.exc = TRUE, !.err = "initialize"]
  ELSE process_update(c, event.update, f)

\* index.py:407-411: an exception of bot.shutdown() is logged
Shutdown(c, f) == IF f.shutdownFails THEN LogError(c, "shutdown") ELSE c

\* index.py:398-411: the exception is logged and raised again
process_telegram_update(c, event, f) ==
  Shutdown(Except(DecodeAndRun(c, event, f),
                  LAMBDA e : LogError(e, "process_telegram_update")),
           f)

\* What handler returns; raised tells that an exception left handler
\* instead.
Envelope(code, key, value) ==
  [statusCode |-> code, key |-> key, value |-> value, raised |-> FALSE]

\* The finally block without its own try / except.
loop_cleanup_uncaught(c, loopBound) ==
  IF loopBound THEN c ELSE Raise(c)

\* index.py:445-456, the finally block: loop is unbound when json.loads
\* raised, and the NameError is caught and logged there.
loop_cleanup(c, loopBound) ==
  IF loopBound THEN c ELSE Caught(Raise(c), "loop cleanup")

\* index.py:431-444: what handler returns after process_telegram_update
ResultOf(c) ==
  IF c.exc
    THEN [ctx |-> LogError(Caught(c, "processing update"), "handler"),
          resp |-> Envelope(500, "error", c.err)]
    ELSE [ctx |-> c, resp |-> Envelope(200, "status", "ok")]

\* index.py:421-444
handler_body(event, f) ==
  IF ~event.json
    THEN [ctx |-> LogError(Ctx0, "handler"), resp |-> Envelope(500, "error", "json")]
    ELSE ResultOf(process_telegram_update(Ctx0, event, f))

\* index.py:445-456: an exception that leaves the finally block replaces
\* the return value
Finally(r, c) == [ctx |-> c, resp |-> [r.resp EXCEPT !.raised = c.exc]]

\* index.py:413-456
handler(event, f) ==
  IF ~event.hasBody
    THEN [ctx |-> Ctx0, resp |-> Envelope(400, "error", "No body found in request")]
    ELSE Let(handler_body(event, f),
             LAMBDA r : Finally(r, loop_cleanup(r.ctx, event.json)))

----------------------------------------------------------------------------
(* The outcomes of the external calls of one invocation *)

\* After a send has failed, further sends happen only in the except blocks
\* and the error handler, and only while they fail too: the sends that fail
\* are consecutive.  n is the number of sends when no send fails, more the
\* number of sends that can fail after the first failure.
SendPlans(n, more) == {{}} \cup { k..(k + j) : k \in 1..n, j \in 0..more }

WithSendFaults(b, n, more) == { [b EXCEPT !.sendFails = s] : s \in SendPlans(n, more) }

\* The outcomes of the calls other than sends that a text message can meet.
ChoiceOutcomes ==
  { [NoFaults EXCEPT !.gauth = (g = "auth"), !.values = (g = "read")] :
      g \in {"ok", "auth", "read"} }

\* The rows random.choice can return, with and without a failing image lookup.
PickOutcomes(matching) ==
  { [NoFaults EXCEPT !.pick = p] : p \in 1..Len(matching) }
  \cup { [NoFaults EXCEPT !.pick = p, !.drive = TRUE] :
           p \in { q \in 1..Len(matching) : HasImage(matching[q]) } }

FormatOutcomes(ud) ==
  { [NoFaults EXCEPT !.gauth = TRUE], [NoFaults EXCEPT !.records = TRUE], NoFaults }
  \cup PickOutcomes(IF FilterRaises(catalog, ud) THEN <<>> ELSE matching_records(catalog, ud))

MessageOutcomes ==
  { [NoFaults EXCEPT !.genOk = FALSE] } \cup { [NoFaults EXCEPT !.genText = t] : t \in gen_pool }

OutcomesAt(e, text) ==
  CASE e.state = Idle /\ text = GenerateContent -> ChoiceOutcomes
    [] e.state \in {AUDIENCE, LANGUAGE, COUNTRY, TOPIC} -> ChoiceOutcomes
    [] e.state = FORMAT -> FormatOutcomes(Put(e.data, "format", text))
    [] e.state = awaiting_message -> MessageOutcomes
    [] OTHER -> {NoFaults}

OutcomesFor(uid, text) ==
  IF uid \notin DOMAIN user_states THEN {NoFaults}
  ELSE OutcomesAt(user_states[uid], text)

FaultsFor(uid, text) ==
  UNION { WithSendFaults(b, Len(handle_message(Ctx0, uid, text, b).out), 3) :
            b \in OutcomesFor(uid, text) }

----------------------------------------------------------------------------
(* Actions: one invocation of handler each *)

NoUpdate == [kind |-> "none", uid |-> 0, text |-> ""]

NoEvent == [hasBody |-> FALSE, json |-> FALSE, decodes |-> FALSE, initFails |-> FALSE,
            kind |-> "none", uid |-> 0, text |-> ""]

\* The invocation returned r.
Returns(r, event, f) ==
  /\ user_states' = r.ctx.us
  /\ out' = r.ctx.out
  /\ calls' = r.ctx.calls
  /\ log' = r.ctx.log
  /\ response' = r.resp
  /\ last' = [hasBody |-> event.hasBody, json |-> event.json, decodes |-> event.decodes,
              initFails |-> f.initFails, kind |-> event.update.kind,
              uid |-> event.update.uid, text |-> event.update.text]

Invoke(event, f) == Returns(handler(event, f), event, f)

Event(kind, uid, text) ==
  [hasBody |-> TRUE, json |-> TRUE, decodes |-> TRUE,
   update |-> [kind |-> kind, uid |-> uid, text |-> text]]

\* event has no 'body' key
HandleNoBody ==
  Invoke([hasBody |-> FALSE, json |-> FALSE, decodes |-> FALSE, update |-> NoUpdate],
         NoFaults)

NoBody ==
  /\ HandleNoBody
  /\ UNCHANGED <<world, since, tasks>>

\* event['body'] is not JSON
HandleBadJson ==
  Invoke([hasBody |-> TRUE, json |-> FALSE, decodes |-> FALSE, update |-> NoUpdate],
         NoFaults)

BadJson ==
  /\ HandleBadJson
  /\ UNCHANGED <<world, since, tasks>>

\* the body is JSON but not an update
HandleBadUpdate ==
  \E sd \in BOOLEAN :
    Invoke([hasBody |-> TRUE, json |-> TRUE, decodes |-> FALSE, update |-> NoUpdate],
           [NoFaults EXCEPT !.shutdownFails = sd])

BadUpdate ==
  /\ HandleBadUpdate
  /\ UNCHANGED <<world, since, tasks>>

\* bot.initialize() raises
HandleInitFails ==
  \E uid \in senders, sd \in BOOLEAN :
    Invoke(Event("other", uid, ""),
           [NoFaults EXCEPT !.initFails = TRUE, !.shutdownFails = sd])

InitFails ==
  /\ HandleInitFails
  /\ UNCHANGED <<world, since, tasks>>

\* bot.shutdown() may raise too; it is tried with every other call succeeding.
WithShutdown(faults) == faults \cup { [NoFaults EXCEPT !.shutdownFails = TRUE] }

HandleStart ==
  \E uid \in senders, f \in WithShutdown(WithSendFaults(NoFaults, 1, 2)) :
    Invoke(Event("start", uid, "/start"), f)

Start ==
  /\ HandleStart
  /\ UNCHANGED <<world, since, tasks>>

HandleHelp ==
  \E uid \in senders, f \in WithShutdown(WithSendFaults(NoFaults, 1, 1)) :
    Invoke(Event("help", uid, "/help"), f)

Help ==
  /\ HandleHelp
  /\ UNCHANGED <<world, since, tasks>>

HandleTextMessage ==
  \E uid \in senders :
    \E text \in TextsOf(uid) :
      \E f \in WithShutdown(FaultsFor(uid, text)) :
        Invoke(Event("text", uid, text), f)

TextMessage ==
  /\ HandleTextMessage
  /\ UNCHANGED <<world, since, tasks>>

\* an update no handler accepts (another command, a photo)
HandleOtherUpdate ==
  \E uid \in senders, sd \in BOOLEAN :
    Invoke(Event("other", uid, ""), [NoFaults EXCEPT !.shutdownFails = sd])

OtherUpdate ==
  /\ HandleOtherUpdate
  /\ UNCHANGED <<world, since, tasks>>

Next ==
  \/ NoBody
  \/ BadJson
  \/ BadUpdate
  \/ InitFails
  \/ Start
  \/ Help
  \/ TextMessage
  \/ OtherUpdate

InitCommon ==
  /\ user_states = EmptyMap
  /\ last = NoEvent
  /\ out = <<>>
  /\ calls = <<>>
  /\ log = <<>>
  /\ response = Envelope(0, "", "")
  /\ since = [u \in senders |-> -1]
  /\ tasks = <<>>

Init ==
  /\ world = "short"
  /\ InitCommon

Spec == Init /\ [][Next]_vars

\* Bodies around the message limit, a sheet without an image_id column.
InitLong ==
  /\ world \in {"long catalog", "long push"}
  /\ InitCommon

SpecLong == InitLong /\ [][Next]_vars

\* Two users, the sheet with images.
InitTwo ==
  /\ world = "two users"
  /\ InitCommon

SpecTwo == InitTwo /\ [][Next]_vars

----------------------------------------------------------------------------
(* The same invocations, counted.  since[u] is -1 when user u has sent no  *)
(* /start or something has failed since; 0 after a /start handled without   *)
(* failure; and k in 1..6 after a menu label and k - 1 further texts, all   *)
(* handled without failure, have followed that /start.                     *)

\* A call, a send, the shutdown or anything logged failed in the invocation.
InvocationFailed ==
  \/ log' # <<>>
  \/ \E i \in 1..Len(out') : ~out'[i].ok
  \/ \E i \in 1..Len(calls') : ~calls'[i].ok

CountOf(n) ==
  CASE last'.kind = "start" -> IF InvocationFailed THEN -1 ELSE 0
    [] last'.kind = "text" ->
         IF n = -1 \/ n = 6 \/ InvocationFailed THEN -1
         ELSE IF n = 0 /\ last'.text \notin {GenerateContent, UsePushGenerator} THEN 0
         ELSE n + 1
    [] OTHER -> n

Counted ==
  /\ since' = [u \in DOMAIN since |-> IF u = last'.uid THEN CountOf(since[u]) ELSE since[u]]
  /\ UNCHANGED <<world, tasks>>

FlowNoBody ==
  /\ HandleNoBody
  /\ Counted

FlowBadJson ==
  /\ HandleBadJson
  /\ Counted

FlowBadUpdate ==
  /\ HandleBadUpdate
  /\ Counted

FlowInitFails ==
  /\ HandleInitFails
  /\ Counted

FlowStart ==
  /\ HandleStart
  /\ Counted

FlowHelp ==
  /\ HandleHelp
  /\ Counted

FlowTextMessage ==
  /\ HandleTextMessage
  /\ Counted

FlowOtherUpdate ==
  /\ HandleOtherUpdate
  /\ Counted

NextFlow ==
  \/ FlowNoBody
  \/ FlowBadJson
  \/ FlowBadUpdate
  \/ FlowInitFails
  \/ FlowStart
  \/ FlowHelp
  \/ FlowTextMessage
  \/ FlowOtherUpdate

SpecFlow == Init /\ [][NextFlow]_vars

----------------------------------------------------------------------------
(* Invocations of one user that the host overlaps.  A handler runs from one *)
(* point where it waits (on an external call or on a send) to the next     *)
(* without interruption; while it waits, other invocations may run.  A     *)
(* task records where its handler is: pc "try" with n waits left before    *)
(* the final statement of its branch, "inner" in the except block of a     *)
(* terminal step, "outer" in the except block of handle_message, "app" in  *)
(* the error handler.  Only user_states and tasks change here.              *)

MaxTasks == 3

\* The user whose updates overlap.
racer == 1

\* The texts the user sends while invocations overlap.
race_texts == {"a"}

NoTask ==
  [kind |-> "none", pc |-> "idle", text |-> "", final |-> "none", next |-> "",
   load |-> FALSE, n |-> 0, overlapped |-> FALSE, restarted |-> FALSE, result |-> ""]

InFlight(t) == tasks[t].pc \notin {"idle", "done"}

\* A task that has returned keeps only what is observed of it.
Done(task) ==
  [NoTask EXCEPT !.kind = task.kind, !.pc = "done", !.overlapped = task.overlapped,
                 !.result = task.result]

\* A branch with n waits and a final statement.
Branch(text, n, final, next) ==
  [NoTask EXCEPT !.kind = "text", !.pc = "try", !.text = text, !.n = n,
                 !.final = final, !.next = next]

\* index.py:147-163: the welcome message, then user_states[id] = {...}
StartTask == [NoTask EXCEPT !.kind = "start", !.pc = "try", !.n = 1, !.final = "assign"]

\* index.py:184-384: the branch handle_message takes, with the waits it
\* makes before its final statement (authentication, sheet read, send; one
\* send; or the sends and the generation call of awaiting_message).
TextTask(us, text) ==
  IF racer \notin DOMAIN us THEN Branch(text, 1, "none", "")
  ELSE LET st == us[racer].state
       IN CASE st = Idle /\ text = GenerateContent -> Branch(text, 3, "set", AUDIENCE)
            [] st = Idle /\ text = UsePushGenerator -> Branch(text, 1, "set", awaiting_product)
            [] st = AUDIENCE -> Branch(text, 3, "set", LANGUAGE)
            [] st = LANGUAGE -> Branch(text, 3, "set", COUNTRY)
            [] st = COUNTRY -> Branch(text, 3, "set", TOPIC)
            [] st = TOPIC -> Branch(text, 3, "set", FORMAT)
            [] st = FORMAT -> [Branch(text, 3, "del", "") EXCEPT !.load = TRUE]
            [] st = awaiting_product -> Branch(text, 1, "set", awaiting_country)
            [] st = awaiting_country -> Branch(text, 1, "set", awaiting_language)
            [] st = awaiting_language -> Branch(text, 1, "set", awaiting_link)
            [] st = awaiting_link -> Branch(text, 1, "set", awaiting_message)
            [] st = awaiting_message -> Branch(text, 4, "del", "")
            [] OTHER -> Done(Branch(text, 0, "none", ""))

\* The answer key a branch stores under before its first wait ("" if none;
\* FORMAT stores after the authentication).
StoredAtBegin(st) ==
  CASE st = AUDIENCE -> "audience"
    [] st = LANGUAGE -> "language"
    [] st = COUNTRY -> "country"
    [] st = TOPIC -> "topic"
    [] st = awaiting_product -> "product"
    [] st = awaiting_country -> "country"
    [] st = awaiting_language -> "language"
    [] st = awaiting_link -> "app_link"
    [] st = awaiting_message -> "message"
    [] OTHER -> ""

BeginStore(us, text) ==
  IF racer \notin DOMAIN us \/ StoredAtBegin(us[racer].state) = "" THEN us
  ELSE [us EXCEPT ![racer].data = Put(@, StoredAtBegin(us[racer].state), text)]

\* finally: del user_states[user_id] (index.py:319-322, 383-384).  A
\* missing entry raises KeyError, which the outer except block handles;
\* propagating tells that an exception of the except block is on its way
\* there too.
DeleteFinally(us, task, propagating) ==
  IF racer \in DOMAIN us
    THEN [us |-> Del(us, racer),
          task |-> IF propagating
                     THEN [task EXCEPT !.pc = "outer",
                             !.result = IF task.restarted THEN "deleted a new entry" ELSE "deleted"]
                     ELSE Done([task EXCEPT
                             !.result = IF task.restarted THEN "deleted a new entry" ELSE "deleted"])]
    ELSE [us |-> us, task |-> [task EXCEPT !.pc = "outer", !.result = "delete failed"]]

\* The final statement of a branch.
FinalStatement(us, task) ==
  CASE task.final = "assign" -> [us |-> Put(us, racer, NewEntry), task |-> Done(task)]
    [] task.final = "set" ->
         IF racer \in DOMAIN us
           THEN [us |-> [us EXCEPT ![racer].state = task.next], task |-> Done(task)]
           ELSE [us |-> us, task |-> [task EXCEPT !.pc = "outer", !.result = "set failed"]]
    [] task.final = "del" -> DeleteFinally(us, task, FALSE)
    [] OTHER -> [us |-> us, task |-> Done(task)]

\* index.py:278-279 after init_google_services has returned:
\* user_data = user_states[user_id]['data']; user_data['format'] = text
LoadAndStore(us, task) ==
  IF racer \in DOMAIN us
    THEN [us |-> [us EXCEPT ![racer].data = Put(@, "format", task.text)],
          task |-> [task EXCEPT !.load = FALSE, !.n = @ - 1]]
    ELSE [us |-> us, task |-> [task EXCEPT !.load = FALSE, !.pc = "inner"]]

\* The except block of a terminal step deletes the entry itself, before
\* finally does.
InnerExcept_deletes(us, task, ok) ==
  DeleteFinally(IF racer \in DOMAIN us THEN Del(us, racer) ELSE us, task, ~ok)

\* index.py:315-322, 377-384: after the apology of the except block of a
\* terminal step, finally runs.
InnerExcept(us, task, ok) == DeleteFinally(us, task, ~ok)

\* The handler goes on after a wait that succeeded (ok) or raised.
AfterWait(us, task, ok) ==
  CASE task.pc = "try" /\ ok ->
         IF task.load THEN LoadAndStore(us, task)
         ELSE IF task.n > 1 THEN [us |-> us, task |-> [task EXCEPT !.n = @ - 1]]
         ELSE FinalStatement(us, task)
    [] task.pc = "try" /\ ~ok ->
         [us |-> us,
          task |-> [task EXCEPT !.pc = IF task.final = "del" THEN "inner"
                                       ELSE IF task.kind = "start" THEN "start_except"
                                       ELSE "outer"]]
    [] task.pc = "inner" -> InnerExcept(us, task, ok)
    [] task.pc \in {"start_except", "outer"} ->
         [us |-> us, task |-> IF ok THEN Done(task) ELSE [task EXCEPT !.pc = "app"]]
    [] OTHER -> [us |-> us, task |-> Done(task)]

\* A task that begins while another is in flight overlaps it.
Begun(t, new) ==
  LET others == { s \in DOMAIN tasks : InFlight(s) }
  IN [s \in DOMAIN tasks |->
        IF s = t THEN [new EXCEPT !.overlapped = (others # {})]
        ELSE IF s \in others THEN [tasks[s] EXCEPT !.overlapped = TRUE]
        ELSE tasks[s]]

CanBegin(t) ==
  /\ tasks[t].pc = "idle"
  /\ \A s \in 1..(t - 1) : tasks[s].pc # "idle"

RaceFrame == UNCHANGED <<world, last, out, calls, log, response, since>>

\* The host delivers /start of the user.
BeginStart ==
  /\ \E t \in DOMAIN tasks :
       /\ CanBegin(t)
       /\ tasks' = Begun(t, StartTask)
  /\ UNCHANGED user_states
  /\ RaceFrame

\* The host delivers a text of the user.
BeginText ==
  /\ \E t \in DOMAIN tasks, text \in race_texts :
       /\ CanBegin(t)
       /\ tasks' = Begun(t, TextTask(user_states, text))
       /\ user_states' = BeginStore(user_states, text)
  /\ RaceFrame

\* A wait of a handler ends and the handler runs to its next wait or to
\* its end.  An entry that /start assigns is new to every other handler in
\* flight.
Resume ==
  /\ \E t \in DOMAIN tasks, ok \in BOOLEAN :
       /\ InFlight(t)
       /\ LET r == AfterWait(user_states, tasks[t], ok)
              assigned == tasks[t].final = "assign" /\ tasks[t].pc = "try" /\ ok
          IN /\ user_states' = r.us
             /\ tasks' = [s \in DOMAIN tasks |->
                            IF s = t THEN r.task
                            ELSE IF assigned /\ InFlight(s)
                              THEN [tasks[s] EXCEPT !.restarted = TRUE]
                            ELSE tasks[s]]
  /\ RaceFrame

NextRace ==
  \/ BeginStart
  \/ BeginText
  \/ Resume

\* Entries the one-at-a-time program reaches: at the terminal step of
\* either flow with the four answers of the earlier steps.
RaceEntries ==
  { [state |-> FORMAT,
     data |-> [audience |-> "a", language |-> "a", country |-> "a", topic |-> "a"]],
    [state |-> awaiting_message,
     data |-> [product |-> "a", country |-> "a", language |-> "a", app_link |-> "a"]] }

InitRace ==
  /\ world = "short"
  /\ user_states \in { [u \in {racer} |-> e] : e \in RaceEntries }
  /\ last = NoEvent
  /\ out = <<>>
  /\ calls = <<>>
  /\ log = <<>>
  /\ response = Envelope(0, "", "")
  /\ since = [u \in senders |-> -1]
  /\ tasks = [t \in 1..MaxTasks |-> NoTask]

SpecRace == InitRace /\ [][NextRace]_vars

----------------------------------------------------------------------------
(* Properties.  A step of the model is one invocation of handler: the      *)
(* unprimed user_states is the dictionary before it, last' its event, and  *)
(* out', calls', log', response' what it sent, called, logged, returned.   *)

Sender == last'.uid

\* The invocation dispatched a text message to handle_message.
TextHandled == last'.kind = "text"

\* ... of a sender whose entry is at step st.
TextHandledAt(st) ==
  /\ TextHandled
  /\ Sender \in DOMAIN user_states
  /\ user_states[Sender].state = st

Has(seq, x) == \E i \in 1..Len(seq) : seq[i] = x

SentText(o, t) == \E i \in 1..Len(o) : o[i].text = t

SentBody(o) == \E i \in 1..Len(o) : o[i].body # <<>>

AllOk(seq) == \A i \in 1..Len(seq) : seq[i].ok

CallOk(cs, svc) == \E i \in 1..Len(cs) : cs[i].svc = svc /\ cs[i].ok

CallFailed(cs, svc) == \E i \in 1..Len(cs) : cs[i].svc = svc /\ ~cs[i].ok

IsPrefix(p, s) == Len(p) <= Len(s) /\ SubSeq(s, 1, Len(p)) = p

FacetKeys == {"audience", "language", "country", "topic", "format"}

RowEquals(r, ud) == \A k \in FacetKeys : k \in DOMAIN ud /\ r[k] = ud[k]

\* The reply the FORMAT step builds from a row: prefix, text, optional image line.
IsReplyOf(b, r) ==
  \/ b = ContentPrefix \o r.text
  \/ /\ "image_id" \in DOMAIN r
     /\ r["image_id"] # ""
     /\ b = ((ContentPrefix \o r.text) \o ImagePrefix) \o LinkOf(r["image_id"])

\* C1: when a text is handled at step FORMAT and the stored answers plus the
\* text equal the five facets of some row of the sheet that was read, the
\* first reply is the reply built from such a row; and no reply of the step
\* carries content of a row that differs from the answers in a facet.
C1_MatchingRowReturned ==
  [][ TextHandledAt(FORMAT) =>
        LET ud == Put(user_states[Sender].data, "format", last'.text)
            rows == { i \in 1..Len(catalog) : RowEquals(catalog[i], ud) }
        IN /\ (CallOk(calls', "read") /\ rows # {}) =>
                /\ Len(out') >= 1
                /\ \E i \in rows : IsReplyOf(out'[1].body, catalog[i])
           /\ \A k \in 1..Len(out') :
                out'[k].body # <<>> => \E i \in rows : IsReplyOf(out'[k].body, catalog[i])
    ]_vars

\* The FORMAT step has just replied with a row that carries an image.
C1_Witness ==
  /\ last.kind = "text"
  /\ last.uid \notin DOMAIN user_states
  /\ CallOk(calls, "read")
  /\ CallOk(calls, "drive")
  /\ Len(out) = 1
  /\ out[1].ok
  /\ \E i \in 1..Len(catalog) : IsReplyOf(out[1].body, catalog[i])

\* C2: after a text is handled for a sender at a terminal step, the sender
\* has no entry, whatever the step met.
C2_TerminalStepDeletes ==
  [][ (TextHandledAt(FORMAT) \/ TextHandledAt(awaiting_message)) =>
        Sender \notin DOMAIN user_states'
    ]_vars

\* A terminal step has failed with an exception and the entry is gone.
C2_Witness ==
  /\ last.kind = "text"
  /\ last.uid \notin DOMAIN user_states
  /\ (Has(log, "FORMAT") \/ Has(log, "awaiting_message"))
  /\ Has(log, "handle_message")

FlowA == <<Idle, AUDIENCE, LANGUAGE, COUNTRY, TOPIC, FORMAT>>
FlowB == <<Idle, awaiting_product, awaiting_country, awaiting_language,
           awaiting_link, awaiting_message>>
KeysA == <<"", "audience", "language", "country", "topic", "format">>
KeysB == <<"", "product", "country", "language", "app_link", "message">>

\* flow[p] is the step st, p below the terminal position
At(flow, p, st) == p \in 1..5 /\ flow[p] = st

\* the flow a text handled at step st belongs to
FlowOf(st, text) ==
  IF st = Idle THEN (IF text = UsePushGenerator THEN FlowB ELSE FlowA)
  ELSE IF \E p \in 2..6 : FlowB[p] = st THEN FlowB ELSE FlowA

KeysOf(flow) == IF flow = FlowB THEN KeysB ELSE KeysA

\* C3: a text handled at a non-terminal step leaves the sender at that step
\* or moves it to the next step of the same flow (from Idle only by the
\* flow's menu label); it moves when no call or send of the step failed;
\* and the text is stored unchanged under the key of the step, the other
\* answers staying as they were.
C3_StepsInOrder ==
  [][ \A p \in 1..5 :
        LET st == IF Sender \in DOMAIN user_states THEN user_states[Sender].state ELSE ""
            flow == FlowOf(st, last'.text)
            key == KeysOf(flow)[p]
            isLabel == last'.text \in {GenerateContent, UsePushGenerator}
        IN (TextHandled /\ At(flow, p, st)) =>
             /\ Sender \in DOMAIN user_states'
             /\ user_states'[Sender].state \in {flow[p], flow[p + 1]}
             /\ (st = Idle /\ ~isLabel) => user_states'[Sender].state = Idle
             /\ (AllOk(out') /\ ~CallFailed(calls', "auth") /\ (st # Idle \/ isLabel))
                   => user_states'[Sender].state = flow[p + 1]
             /\ user_states'[Sender].data =
                  IF key = "" THEN user_states[Sender].data
                  ELSE Put(user_states[Sender].data, key, last'.text)
    ]_vars

\* The sender has walked the catalog flow up to FORMAT, answering a menu
\* label at the TOPIC step.
C3_Witness ==
  /\ last.kind = "text"
  /\ last.text = UsePushGenerator
  /\ last.uid \in DOMAIN user_states
  /\ user_states[last.uid].state = FORMAT
  /\ DOMAIN user_states[last.uid].data = {"audience", "language", "country", "topic"}
  /\ user_states[last.uid].data["topic"] = UsePushGenerator

\* C4: a text of a sender without entry is answered with the restart
\* instruction and user_states is left as it was.
C4_NoStateNoEntry ==
  [][ (TextHandled /\ Sender \notin DOMAIN user_states) =>
        /\ Len(out') >= 1
        /\ out'[1].text = RestartMsg
        /\ user_states' = user_states
    ]_vars

\* The restart instruction has been sent to a sender without entry.
C4_Witness ==
  /\ last.kind = "text"
  /\ last.uid \notin DOMAIN user_states
  /\ Len(out) = 1
  /\ out[1].text = RestartMsg
  /\ out[1].ok

RECURSIVE Flatten(_)
Flatten(seqs) == IF seqs = <<>> THEN <<>> ELSE Head(seqs).body \o Flatten(Tail(seqs))

Bodies(o) == SelectSeq(o, LAMBDA m : m.body # <<>>)

\* The bodies a terminal step can have to send: the reply of a row, or a
\* generated text.  None is a prefix of another.
Candidates ==
  { ContentPrefix \o catalog[i].text : i \in 1..Len(catalog) } \cup gen_pool

CeilDiv(n, d) == IF n % d = 0 THEN n \div d ELSE (n \div d) + 1

\* C5: the messages a terminal step sent for a body have at most 4096
\* characters each and are, in order, the beginning of the body; when no
\* send of them failed they are ceil(length / 4096) messages (one for a body
\* of at most 4096 characters) and their concatenation is the body.
C5_ChunksReproduceBody ==
  LET ms == Bodies(out)
  IN ms # <<>> =>
       \E B \in Candidates :
         /\ \A i \in 1..Len(ms) : Len(ms[i].body) <= 4096
         /\ \A i \in 1..(Len(ms) - 1) : ms[i].ok
         /\ IsPrefix(Flatten(ms), B)
         /\ ms[Len(ms)].ok =>
              /\ Flatten(ms) = B
              /\ Len(ms) = CeilDiv(Len(B), 4096)
              /\ Len(B) <= 4096 => Len(ms) = 1

\* A body of 2 * 4096 + 1 characters has been sent as three messages.
C5_Witness ==
  /\ last.kind = "text"
  /\ Len(Bodies(out)) = 3
  /\ AllOk(out)
  /\ Len(Flatten(Bodies(out))) = 2 * 4096 + 1
  /\ Len(Bodies(out)[3].body) = 1

\* C6: when the generation call of the awaiting_message step fails, the
\* fallback message is sent after the waiting notice, no generated content
\* is sent, and the sender's entry is removed.
C6_GenerationFailure ==
  [][ (TextHandledAt(awaiting_message) /\ CallFailed(calls', "generate")) =>
        /\ Len(out') >= 2
        /\ out'[1].text = GeneratingMsg
        /\ out'[2].text = GenFailedMsg
        /\ ~SentBody(out')
        /\ ~SentText(out', MoreMsg)
        /\ Sender \notin DOMAIN user_states'
    ]_vars

\* The fallback message has been sent after a failed generation call.
C6_Witness ==
  /\ last.kind = "text"
  /\ CallFailed(calls, "generate")
  /\ Has(log, "generate_push_notifications")
  /\ Len(out) = 2
  /\ out[2].text = GenFailedMsg
  /\ out[2].ok
  /\ last.uid \notin DOMAIN user_states

\* C7: when the FORMAT step has read the sheet and no row equals the five
\* answers on all five facets, the "no content found" message is sent, no
\* content of the sheet is sent, and the sender's entry is removed.
C7_NoMatch ==
  [][ TextHandledAt(FORMAT) =>
        LET ud == Put(user_states[Sender].data, "format", last'.text)
        IN (CallOk(calls', "read") /\ \A i \in 1..Len(catalog) : ~RowEquals(catalog[i], ud)) =>
             /\ Len(out') >= 1
             /\ out'[1].text = NoContentMsg
             /\ ~SentBody(out')
             /\ Sender \notin DOMAIN user_states'
    ]_vars

\* The "no content found" message has been sent.
C7_Witness ==
  /\ last.kind = "text"
  /\ CallOk(calls, "read")
  /\ Len(out) = 1
  /\ out[1].text = NoContentMsg
  /\ out[1].ok
  /\ last.uid \notin DOMAIN user_states

StartHandled == last'.kind = "start"

\* C8 as stated: after /start the sender's entry is the Idle step with no
\* answers and the two choices have been shown.
C8_Original ==
  [][ StartHandled =>
        /\ Sender \in DOMAIN user_states'
        /\ user_states'[Sender] = [state |-> Idle, data |-> EmptyMap]
        /\ Len(out') >= 1
        /\ out'[1].text = WelcomeMsg
        /\ out'[1].keyboard = <<GenerateContent, UsePushGenerator>>
        /\ out'[1].ok
    ]_vars

\* C8 amended: /start sends the welcome message with the two choices; when
\* that send succeeds the sender's entry is the Idle step with no answers,
\* whatever it was; when it fails user_states is left as it was and the
\* sender is asked to try again.
C8_StartResets ==
  [][ StartHandled =>
        /\ Len(out') >= 1
        /\ out'[1].text = WelcomeMsg
        /\ out'[1].keyboard = <<GenerateContent, UsePushGenerator>>
        /\ out'[1].ok =>
             /\ Len(out') = 1
             /\ DOMAIN user_states' = DOMAIN user_states \cup {Sender}
             /\ user_states'[Sender] = [state |-> Idle, data |-> EmptyMap]
             /\ \A u \in DOMAIN user_states \ {Sender} : user_states'[u] = user_states[u]
        /\ ~out'[1].ok =>
             /\ user_states' = user_states
             /\ Len(out') >= 2
             /\ out'[2].text = StartErrorMsg
    ]_vars

\* /start has reset the entry of a sender.
C8_Witness ==
  /\ last.kind = "start"
  /\ Len(out) = 1
  /\ out[1].ok
  /\ out[1].keyboard = <<GenerateContent, UsePushGenerator>>
  /\ last.uid \in DOMAIN user_states
  /\ user_states[last.uid] = [state |-> Idle, data |-> EmptyMap]

\* C9: handler never raises and returns 400 with an error body, having sent,
\* called and changed nothing, exactly when the event has no body; it
\* returns 500 with the failure message exactly when an exception reached
\* it (the body is not JSON, is not an update, or the bot fails to start),
\* and 200 with status ok otherwise.
C9_Envelope ==
  [][ LET r == response'
          reached == Has(log', "handler")
      IN /\ ~r.raised
         /\ r.statusCode \in {200, 400, 500}
         /\ (r.statusCode = 400) <=> ~last'.hasBody
         /\ ~last'.hasBody =>
              /\ r.key = "error"
              /\ out' = <<>> /\ calls' = <<>> /\ log' = <<>>
              /\ user_states' = user_states
         /\ (r.statusCode = 500) <=> reached
         /\ r.statusCode = 500 => (r.key = "error" /\ r.value \in {"json", "update", "initialize"})
         /\ r.statusCode = 200 => (r.key = "status" /\ r.value = "ok")
         /\ (last'.hasBody /\ (~last'.json \/ ~last'.decodes \/ last'.initFails))
              => (r.statusCode = 500 /\ user_states' = user_states)
         /\ (last'.hasBody /\ last'.json /\ last'.decodes /\ ~last'.initFails)
              => r.statusCode = 200
    ]_vars

\* A body that is not JSON has been answered with 500; the cleanup of the
\* unbound loop has been caught.
C9_Witness ==
  /\ last.hasBody
  /\ ~last.json
  /\ response.statusCode = 500
  /\ ~response.raised
  /\ Has(log, "loop cleanup")

NonTerminal == {Idle, AUDIENCE, LANGUAGE, COUNTRY, TOPIC,
                awaiting_product, awaiting_country, awaiting_language, awaiting_link}

\* The step of handle_message failed with an exception.
StepFailed ==
  /\ TextHandled
  /\ Sender \in DOMAIN user_states
  /\ user_states[Sender].state \in NonTerminal
  /\ Has(log', "handle_message")

\* C10 as stated: an exception in a non-terminal step leaves the entry as
\* it was, answers included.
C10_Original == [][ StepFailed => user_states' = user_states ]_vars

AnswerKey(st) ==
  CASE st = AUDIENCE -> "audience"
    [] st = LANGUAGE -> "language"
    [] st = COUNTRY -> "country"
    [] st = TOPIC -> "topic"
    [] st = awaiting_product -> "product"
    [] st = awaiting_country -> "country"
    [] st = awaiting_language -> "language"
    [] st = awaiting_link -> "app_link"
    [] OTHER -> ""

\* C10 amended: an exception in a non-terminal step leaves the entry in
\* place at the same step; the answers are as before except that the text
\* of the message is already stored under the key of the step (nothing is
\* stored at Idle).
C10_FailureKeepsStep ==
  [][ StepFailed =>
        LET e == user_states[Sender]
        IN /\ DOMAIN user_states' = DOMAIN user_states
           /\ user_states'[Sender].state = e.state
           /\ user_states'[Sender].data =
                IF e.state = Idle THEN e.data
                ELSE [k \in (DOMAIN e.data) \cup {AnswerKey(e.state)} |->
                        IF k = AnswerKey(e.state) THEN last'.text ELSE e.data[k]]
    ]_vars

\* The AUDIENCE step has failed; the entry is still at AUDIENCE and holds
\* the text as its audience.
C10_Witness ==
  /\ last.kind = "text"
  /\ Has(log, "handle_message")
  /\ last.uid \in DOMAIN user_states
  /\ user_states[last.uid].state = AUDIENCE
  /\ user_states[last.uid].data = [audience |-> last.text]

\* An exception left the step of handle_message and reached its outer
\* except block (index.py:386-388).
DispatchFailed == TextHandled /\ Has(log', "handle_message")

Apology(o) == \E i \in 1..Len(o) : o[i].text = HandleErrorMsg

\* C11 as stated: an exception raised while a message is dispatched gives a
\* logged apology to the user and status 500 from handler.
C11_Original ==
  [][ DispatchFailed => (Apology(out') /\ response'.statusCode = 500) ]_vars

\* C11 amended: an exception that leaves a step of handle_message is logged
\* and the generic apology is sent to the user; the exception goes no
\* further (when the apology is delivered nothing else is logged or sent
\* after it) and handler returns status 200 with status ok.  When the
\* apology cannot be sent the error handler logs and tries its own apology,
\* and handler still returns 200.  Status 500 is returned only for a
\* failure before dispatch, when nothing has been sent.
C11_DispatchFailureIs200 ==
  [][ /\ DispatchFailed =>
        /\ Apology(out')
        /\ response'.statusCode = 200
        /\ response'.key = "status" /\ response'.value = "ok"
        /\ ~response'.raised
        /\ (\E i \in 1..Len(out') : out'[i].text = HandleErrorMsg /\ out'[i].ok) =>
              (out'[Len(out')].text = HandleErrorMsg /\ ~Has(log', "error"))
        /\ (\E i \in 1..Len(out') : out'[i].text = HandleErrorMsg /\ ~out'[i].ok) =>
              (Has(log', "error") /\ SentText(out', ErrorHandlerMsg))
      /\ response'.statusCode = 500 => (out' = <<>> /\ ~Has(log', "handle_message"))
    ]_vars

\* A step has failed, the apology has been delivered and handler has
\* returned 200.
C11_Witness ==
  /\ last.kind = "text"
  /\ Has(log, "handle_message")
  /\ out # <<>>
  /\ out[Len(out)].text = HandleErrorMsg
  /\ out[Len(out)].ok
  /\ response.statusCode = 200

ChoicePrompt(st) ==
  CASE st = Idle -> "Please select your audience:"
    [] st = AUDIENCE -> "Great! Now select the language:"
    [] st = LANGUAGE -> "Perfect! Choose the country:"
    [] st = COUNTRY -> "Choose the topic:"
    [] st = TOPIC -> "Finally, choose the format:"
    [] OTHER -> ""

NextChoice(st) ==
  CASE st = Idle -> AUDIENCE
    [] st = AUDIENCE -> LANGUAGE
    [] st = LANGUAGE -> COUNTRY
    [] st = COUNTRY -> TOPIC
    [] st = TOPIC -> FORMAT
    [] OTHER -> ""

\* A text is handled at a step of the catalog flow that offers choices.
ChoiceHandled ==
  /\ TextHandled
  /\ Sender \in DOMAIN user_states
  /\ \/ user_states[Sender].state = Idle /\ last'.text = GenerateContent
     \/ user_states[Sender].state \in {AUDIENCE, LANGUAGE, COUNTRY, TOPIC}

\* The prompt of the step is sent first, with no choices, and once it is
\* delivered the sender is at the next step.
Degraded ==
  LET st == user_states[Sender].state
  IN /\ log' # <<>>
     /\ Len(out') >= 1
     /\ out'[1].text = ChoicePrompt(st)
     /\ out'[1].keyboard = <<>>
     /\ out'[1].ok => user_states'[Sender].state = NextChoice(st)

\* C12 as stated: a failure of the re-authentication or of the fetch at a
\* step that offers choices is logged and gives an empty choice list; the
\* prompt is sent and the step advances.
C12_Original ==
  [][ (ChoiceHandled /\ (CallFailed(calls', "auth") \/ CallFailed(calls', "read")))
        => Degraded ]_vars

\* C12 amended: a failure of the fetch is logged and gives an empty choice
\* list, the prompt is sent and the step advances; a failure of the
\* re-authentication is logged and fails the step: nothing is fetched, no
\* prompt is sent, the apology is sent and the step does not advance.
C12_FetchDegradesAuthFails ==
  [][ ChoiceHandled =>
        LET st == user_states[Sender].state
        IN /\ CallFailed(calls', "read") =>
                (Degraded /\ Has(log', "get_unique_values"))
           /\ CallFailed(calls', "auth") =>
                /\ Has(log', "init_google_services")
                /\ Has(log', "handle_message")
                /\ Len(calls') = 1
                /\ ~SentText(out', ChoicePrompt(st))
                /\ Len(out') >= 1
                /\ out'[1].text = HandleErrorMsg
                /\ user_states'[Sender].state = st
    ]_vars

\* The fetch has failed at the COUNTRY step: the topic prompt went out with
\* no choices and the sender is at TOPIC.
C12_Witness ==
  /\ last.kind = "text"
  /\ CallFailed(calls, "read")
  /\ log = <<"get_unique_values">>
  /\ Len(out) = 1
  /\ out[1].text = "Choose the topic:"
  /\ out[1].keyboard = <<>>
  /\ out[1].ok
  /\ last.uid \in DOMAIN user_states
  /\ user_states[last.uid].state = TOPIC

\* C13: a text other than the two menu labels handled at the Idle step
\* changes nothing: user_states is as before, the sender is at Idle with no
\* answers, no service is called, nothing is sent or logged, and handler
\* returns 200.
C13_IdleOtherTextNoOp ==
  [][ (TextHandledAt(Idle) /\ last'.text \notin {GenerateContent, UsePushGenerator}) =>
        /\ user_states' = user_states
        /\ user_states'[Sender] = [state |-> Idle, data |-> EmptyMap]
        /\ calls' = <<>>
        /\ out' = <<>>
        /\ ~Has(log', "handle_message")
        /\ response'.statusCode = 200
    ]_vars

\* The text "a" has been handled at Idle.
C13_Witness ==
  /\ last.kind = "text"
  /\ last.text = "a"
  /\ last.uid \in DOMAIN user_states
  /\ user_states[last.uid] = [state |-> Idle, data |-> EmptyMap]
  /\ out = <<>>
  /\ calls = <<>>
  /\ log = <<>>
  /\ response.statusCode = 200

Services == {"auth", "read", "drive", "generate"}

Invocations(cs, svc) == Cardinality({ i \in 1..Len(cs) : cs[i].svc = svc })

\* C14: one invocation of handler calls each external service at most once
\* (so a call that failed is not made again), nothing is called after a
\* failed authentication or sheet read, and the generation service is
\* called only for a text handled at the awaiting_message step.
C14_NoRetries ==
  [][ /\ \A i \in 1..Len(calls') : calls'[i].svc \in Services
      /\ \A svc \in Services : Invocations(calls', svc) <= 1
      /\ \A i \in 1..Len(calls') :
           (~calls'[i].ok /\ calls'[i].svc \in {"auth", "read"}) => i = Len(calls')
      /\ Invocations(calls', "generate") = 1 => TextHandledAt(awaiting_message)
      /\ ~TextHandled => calls' = <<>>
    ]_vars

\* The FORMAT step has authenticated, read the sheet and failed once to
\* look up the image link.
C14_Witness ==
  /\ last.kind = "text"
  /\ Len(calls) = 3
  /\ calls[1] = [svc |-> "auth", ok |-> TRUE]
  /\ calls[2] = [svc |-> "read", ok |-> TRUE]
  /\ calls[3] = [svc |-> "drive", ok |-> FALSE]

\* C15: when the image lookup of the FORMAT step fails, the failure is
\* logged and the reply is the prefix and the text of a matching row that
\* carries an image reference, with no image line; once the reply is
\* delivered nothing else is sent, the step has not failed, and the
\* sender's entry is removed.
C15_ImageFailureNotFatal ==
  [][ (TextHandledAt(FORMAT) /\ CallFailed(calls', "drive")) =>
        LET ud == Put(user_states[Sender].data, "format", last'.text)
            rows == { i \in 1..Len(catalog) :
                        RowEquals(catalog[i], ud) /\ HasImage(catalog[i]) }
        IN /\ Has(log', "image")
           /\ Len(out') >= 1
           /\ \E i \in rows : out'[1].body = ContentPrefix \o catalog[i].text
           /\ out'[1].ok =>
                /\ Len(out') = 1
                /\ ~Has(log', "FORMAT")
                /\ ~Has(log', "handle_message")
           /\ Sender \notin DOMAIN user_states'
    ]_vars

\* The row with text "B" and an image has been sent without image line
\* after a failed lookup.
C15_Witness ==
  /\ last.kind = "text"
  /\ CallFailed(calls, "drive")
  /\ log = <<"image">>
  /\ Len(out) = 1
  /\ out[1].ok
  /\ out[1].body = ContentPrefix \o <<66>>
  /\ last.uid \notin DOMAIN user_states

ApologyTexts == {FormatErrorMsg, GenErrorMsg, HandleErrorMsg, ErrorHandlerMsg}

\* A call failed, or a send other than an apology failed.
SomethingFailed ==
  \/ \E i \in 1..Len(calls) : ~calls[i].ok
  \/ \E i \in 1..Len(out) : ~out[i].ok /\ out[i].text \notin ApologyTexts

\* C17: an entry at FORMAT holds answers for audience, language, country
\* and topic, an entry at awaiting_message holds answers for product,
\* country, language and app_link; and when a terminal step has failed, a
\* call or a send had failed: never a missing answer.
C17_AnswersPresent ==
  /\ \A u \in DOMAIN user_states :
       /\ user_states[u].state = FORMAT =>
            {"audience", "language", "country", "topic"} \subseteq DOMAIN user_states[u].data
       /\ user_states[u].state = awaiting_message =>
            {"product", "country", "language", "app_link"} \subseteq DOMAIN user_states[u].data
  /\ (Has(log, "FORMAT") \/ Has(log, "awaiting_message")) => SomethingFailed

\* The sender has reached awaiting_message with the four answers.
C17_Witness ==
  /\ last.kind = "text"
  /\ last.uid \in DOMAIN user_states
  /\ user_states[last.uid].state = awaiting_message
  /\ DOMAIN user_states[last.uid].data = {"product", "country", "language", "app_link"}
  /\ user_states[last.uid].data["app_link"] = last.text

\* The answer keys of the steps 2..p of a flow.
KeysUpTo(keys, p) == { keys[q] : q \in 2..p }

\* C18: an entry at Idle has no answers, and an entry at a later step of a
\* flow holds answers under the keys of the earlier steps of that flow and,
\* after a failed attempt, of its own step: under no other key.
C18_IdleHasNoAnswers ==
  \A u \in DOMAIN user_states :
    LET e == user_states[u]
    IN /\ e.state = Idle => e.data = EmptyMap
       /\ \A p \in 2..6 :
            /\ e.state = FlowA[p] =>
                 /\ KeysUpTo(KeysA, p - 1) \subseteq DOMAIN e.data
                 /\ DOMAIN e.data \subseteq KeysUpTo(KeysA, p)
            /\ e.state = FlowB[p] =>
                 /\ KeysUpTo(KeysB, p - 1) \subseteq DOMAIN e.data
                 /\ DOMAIN e.data \subseteq KeysUpTo(KeysB, p)

\* The push flow could not be entered because the prompt was not
\* delivered: the entry is still at Idle, with no answers.
C18_Witness ==
  /\ last.kind = "text"
  /\ last.text = UsePushGenerator
  /\ Has(log, "handle_message")
  /\ last.uid \in DOMAIN user_states
  /\ user_states[last.uid] = [state |-> Idle, data |-> EmptyMap]

\* C19: handling /start or a text message of one user leaves the entry of
\* every other user as it was: none is created, changed or deleted.  (The
\* same holds of every other invocation.)
C19_OtherUsersUntouched ==
  [][ \A u \in (DOMAIN user_states \cup DOMAIN user_states') \ {Sender} :
        /\ u \in DOMAIN user_states
        /\ u \in DOMAIN user_states'
        /\ user_states'[u] = user_states[u]
    ]_vars

\* The FORMAT step of user 2 has sent content and deleted the entry of
\* user 2 while user 1 is in the push flow.
C19_Witness ==
  /\ world = "two users"
  /\ last.kind = "text"
  /\ last.uid = 2
  /\ CallOk(calls, "read")
  /\ SentBody(out)
  /\ DOMAIN user_states = {1}
  /\ user_states[1].state = awaiting_link

\* C20: after a /start, a menu label and k - 1 further texts handled with
\* no failure (k in 1..5) the sender is at step k + 1 of a flow; the fifth
\* text after the label is handled by the terminal step of the flow, and
\* after it the sender has no entry: with no failure an entry takes part in
\* at most six text messages after /start.
C20_FlowEndsAfterSix ==
  [][ \A u \in DOMAIN since :
        LET n == since'[u]
        IN /\ n \in -1..6
           /\ n = 0 =>
                (u \in DOMAIN user_states' /\ user_states'[u].state = Idle)
           /\ n \in 1..5 =>
                /\ u \in DOMAIN user_states'
                /\ user_states'[u].state \in {FlowA[n + 1], FlowB[n + 1]}
           /\ n = 6 => u \notin DOMAIN user_states'
           /\ (n = 6 /\ since[u] = 5) =>
                (TextHandledAt(FORMAT) \/ TextHandledAt(awaiting_message))
    ]_vars

\* The sixth text after /start has been handled by the awaiting_message
\* step, which sent generated content and removed the entry.
C20_Witness ==
  /\ since[1] = 6
  /\ last.kind = "text"
  /\ last.uid = 1
  /\ CallOk(calls, "generate")
  /\ SentText(out, MoreMsg)
  /\ 1 \notin DOMAIN user_states

\* Under Spec both entries of RaceEntries occur.
RaceEntryAtFormat ==
  \E u \in DOMAIN user_states :
    user_states[u] \in RaceEntries /\ user_states[u].state = FORMAT

RaceEntryAtMessage ==
  \E u \in DOMAIN user_states :
    user_states[u] \in RaceEntries /\ user_states[u].state = awaiting_message

BadOutcomes == {"deleted a new entry", "delete failed"}

\* C16: the unconditional delete of a terminal step removes an entry that
\* an intervening /start has created, or finds the entry gone and fails,
\* only in a handler that another handler for the same user overlapped: a
\* handler that ran with no other in flight does neither.
C16_OnlyOverlappedHandlersRace ==
  \A t \in DOMAIN tasks :
    tasks[t].result \in (BadOutcomes \cup {"set failed"}) => tasks[t].overlapped

\* Both bad outcomes have happened: two texts at a terminal step and a
\* /start overlapped; one delete removed the entry /start created, the
\* other found no entry.
C16_Witness ==
  /\ tasks # <<>>
  /\ \E t \in DOMAIN tasks : tasks[t].pc = "done" /\ tasks[t].result = "deleted a new entry"
  /\ \E t \in DOMAIN tasks : tasks[t].pc = "done" /\ tasks[t].result = "delete failed"
  /\ \E t \in DOMAIN tasks : tasks[t].pc = "done" /\ tasks[t].kind = "start"

====
